---- MODULE Spec2Model ----
(***************************************************************************)
(* choose_best_xpath of xpath_generator.py: fragment parsing, anchor       *)
(* resolution, expression building and the validate-and-escalate steps.    *)
(*                                                                         *)
(* A Python str is a sequence of characters.  A character is a one-letter  *)
(* string; "NBSP" is U+00A0 and "ZWSP" is U+200B.  None is a value that is *)
(* no character sequence.                                                  *)
(***************************************************************************)
EXTENDS Integers, Sequences, FiniteSets, TLC

None == <<"<None>">>

\* The value of a local variable: S is {e : v \in {x}}, the expression e with
\* the local variable v assigned x.
The(S) == CHOOSE r \in S : TRUE

\* Python truthiness of an Optional[str]: neither None nor "".
Truthy(s) == s # None /\ s # <<>>

UpperChars == <<"A","B","C","D","E","F","G","H","I","J","K","L","M",
                "N","O","P","Q","R","S","T","U","V","W","X","Y","Z">>

LowerChars == <<"a","b","c","d","e","f","g","h","i","j","k","l","m",
                "n","o","p","q","r","s","t","u","v","w","x","y","z">>

DigitChars == {"0","1","2","3","4","5","6","7","8","9"}

\* str.lower() on one character.
Lower(c) ==
    IF \E i \in 1..26 : UpperChars[i] = c
    THEN LowerChars[CHOOSE i \in 1..26 : UpperChars[i] = c]
    ELSE c

LowerStr(s) == [i \in 1..Len(s) |-> Lower(s[i])]

\* \w of a str pattern.
IsWord(c) ==
    \/ \E i \in 1..26 : c = UpperChars[i] \/ c = LowerChars[i]
    \/ c \in DigitChars
    \/ c = "_"

\* \s of a str pattern, and the whitespace of str.strip() and str.split().
IsSpace(c) == c \in {" ", "\t", "\n", "\r", "\f", "NBSP"}

IsQuote(c) == c \in {"\"", "'"}

RECURSIVE SkipSpace(_, _)
\* \s* from index i: the index of the first non-space character at or after i.
SkipSpace(s, i) ==
    IF i <= Len(s) /\ IsSpace(s[i]) THEN SkipSpace(s, i + 1) ELSE i

RECURSIVE SkipWord(_, _)
\* \w* from index i.
SkipWord(s, i) ==
    IF i <= Len(s) /\ IsWord(s[i]) THEN SkipWord(s, i + 1) ELSE i

RECURSIVE FindChar(_, _, _)
\* The first index at or after i whose character is in the set cs, else 0.
FindChar(s, i, cs) ==
    IF i > Len(s) THEN 0
    ELSE IF s[i] \in cs THEN i
    ELSE FindChar(s, i + 1, cs)

\* s[i-1:j-1] of Python in 1-based inclusive indices i..j.
Slice(s, i, j) == IF i > j THEN <<>> ELSE SubSeq(s, i, j)

\* The pattern p (lower case) matches s at index i, ignoring case.
MatchesAtI(s, i, p) ==
    /\ i >= 1
    /\ i + Len(p) - 1 <= Len(s)
    /\ \A k \in 1..Len(p) : Lower(s[i + k - 1]) = p[k]

RECURSIVE SkipSpaceBack(_, _)
\* The index of the last non-space character at or before j, else 0.
SkipSpaceBack(s, j) ==
    IF j >= 1 /\ IsSpace(s[j]) THEN SkipSpaceBack(s, j - 1) ELSE j

\* str.strip().
Strip(s) == The({Slice(s, i, j) : i \in {SkipSpace(s, 1)}, j \in {SkipSpaceBack(s, Len(s))}})

(***************************************************************************)
(* _norm                                                                   *)
(***************************************************************************)

\* ">" at index k: the index after it, else 0.
GtAt(s, k) == IF k <= Len(s) /\ s[k] = ">" THEN k + 1 ELSE 0

\* /?> at index j.
BrClose(s, j) == IF j <= Len(s) /\ s[j] = "/" THEN GtAt(s, j + 1) ELSE GtAt(s, j)

\* A match of <br\s*/?> (IGNORECASE) at index i: the index after it, else 0.
BrEnd(s, i) ==
    IF MatchesAtI(s, i, <<"<","b","r">>)
    THEN The({BrClose(s, j) : j \in {SkipSpace(s, i + 3)}})
    ELSE 0

RECURSIVE SubBr(_, _)
\* One step of the substitution at index i, where e is BrEnd(s, i).
SubBrAt(s, i, e) ==
    IF e > 0 THEN <<" ">> \o SubBr(s, e) ELSE <<s[i]>> \o SubBr(s, i + 1)

\* re.sub(r'<br\s*/?>', ' ', s, flags=re.IGNORECASE), from index i.
SubBr(s, i) ==
    IF i > Len(s) THEN <<>> ELSE The({SubBrAt(s, i, e) : e \in {BrEnd(s, i)}})

\* The named references of html.entities.html5 that the fragments use,
\* each with and without its semicolon.
Html5 ==
    [name \in {<<"n","b","s","p",";">>, <<"n","b","s","p">>,
               <<"a","m","p",";">>, <<"a","m","p">>,
               <<"l","t",";">>, <<"l","t">>,
               <<"g","t",";">>, <<"g","t">>} |->
        CASE name[1] = "n" -> <<"NBSP">>
          [] name[1] = "a" -> <<"&">>
          [] name[1] = "l" -> <<"<">>
          [] OTHER -> <<">">>]

MaxRefName == 32

RECURSIVE RefNameEnd(_, _, _)
\* [^\t\n\f <&#;]{1,32} from index i, with at most left characters to take.
RefNameEnd(s, i, left) ==
    IF left = 0 \/ i > Len(s) \/ s[i] \in {"\t","\n","\f"," ","<","&","#",";"}
    THEN i
    ELSE RefNameEnd(s, i + 1, left - 1)

\* ;? at index e.
OptSemicolon(s, e) == IF e <= Len(s) /\ s[e] = ";" THEN e + 1 ELSE e

\* [^\t\n\f <&#;]{1,32};? from index i: the index after the reference name.
RefEnd(s, i) == The({OptSemicolon(s, e) : e \in {RefNameEnd(s, i, MaxRefName)}})

RECURSIVE LongestPrefix(_, _)
\* for x in range(len(s)-1, 1, -1): if s[:x] in html5: return html5[s[:x]] + s[x:]
\* -- else '&' + s.
LongestPrefix(name, x) ==
    IF x <= 1 THEN <<"&">> \o name
    ELSE IF SubSeq(name, 1, x) \in DOMAIN Html5
    THEN Html5[SubSeq(name, 1, x)] \o Slice(name, x + 1, Len(name))
    ELSE LongestPrefix(name, x - 1)

\* replace_charref of html.unescape on a named reference.
ReplaceCharref(name) ==
    IF name \in DOMAIN Html5 THEN Html5[name] ELSE LongestPrefix(name, Len(name) - 1)

RECURSIVE Unescape(_, _)
\* One step at the "&" of index i, where e is RefEnd(s, i + 1).
UnescapeAt(s, i, e) ==
    IF e > i + 1 /\ s[i + 1] # ";"
    THEN The({ReplaceCharref(name) : name \in {Slice(s, i + 1, e - 1)}})
            \o Unescape(s, e)
    ELSE <<s[i]>> \o Unescape(s, i + 1)

\* html.unescape(s), from index i (numeric references do not occur).
Unescape(s, i) ==
    IF i > Len(s) THEN <<>>
    ELSE IF s[i] = "&" THEN The({UnescapeAt(s, i, e) : e \in {RefEnd(s, i + 1)}})
    ELSE <<s[i]>> \o Unescape(s, i + 1)

\* re.sub(r'[\u00A0\u2000-\u200F\u2028-\u202F\u205F\u3000]', ' ', s).
FoldUnicodeSpaces(s) ==
    [i \in 1..Len(s) |-> IF s[i] \in {"NBSP", "ZWSP"} THEN " " ELSE s[i]]

RECURSIVE Collapse(_, _, _)
\* ' '.join(s.split()) from index i; started: a word has been emitted.
Collapse(s, i, started) ==
    IF i > Len(s) THEN <<>>
    ELSE IF IsSpace(s[i]) THEN Collapse(s, i + 1, started)
    ELSE (IF started /\ i > 1 /\ IsSpace(s[i - 1]) THEN <<" ">> ELSE <<>>)
            \o <<s[i]>> \o Collapse(s, i + 1, TRUE)

\* s without its <br> tags, unescaped, its Unicode spaces folded.
Unbroken(s) ==
    The({The({FoldUnicodeSpaces(u) : u \in {Unescape(b, 1)}}) : b \in {SubBr(s, 1)}})

_norm(s) ==
    IF ~Truthy(s) THEN <<>>
    ELSE The({Collapse(t, 1, FALSE) : t \in {Unbroken(s)}})

(***************************************************************************)
(* _xp_literal                                                             *)
(***************************************************************************)

RECURSIVE DoubleQuotes(_, _)
\* s.replace("'", "''"), from index i.
DoubleQuotes(s, i) ==
    IF i > Len(s) THEN <<>>
    ELSE (IF s[i] = "'" THEN <<"'", "'">> ELSE <<s[i]>>) \o DoubleQuotes(s, i + 1)

_xp_literal(s) ==
    IF ~Truthy(s) THEN <<"'", "'">>
    ELSE <<"'">> \o DoubleQuotes(s, 1) \o <<"'">>

(***************************************************************************)
(* Regular-expression pieces: a failed match is NoMatch, a match carries   *)
(* its captured value and the index after it.                              *)
(***************************************************************************)

NoMatch == [ok |-> FALSE]

\* ([^"\']*)["\'] after the opening quote at index q: the value runs to the
\* first quote of either kind at index c (0: there is none); minLen is 0 for
\* * and *?, 1 for +.
QuotedValue(s, q, c, minLen) ==
    IF c > 0 /\ c - (q + 1) >= minLen
    THEN [ok |-> TRUE, value |-> Slice(s, q + 1, c - 1), end |-> c + 1]
    ELSE NoMatch

\* ["\'] at index q, then the value.
OpenQuote(s, q, minLen) ==
    IF q <= Len(s) /\ IsQuote(s[q])
    THEN The({QuotedValue(s, q, c, minLen) : c \in {FindChar(s, q + 1, {"\"", "'"})}})
    ELSE NoMatch

\* =\s*["\']...  at index eq.
EqualsSign(s, eq, minLen) ==
    IF eq <= Len(s) /\ s[eq] = "="
    THEN The({OpenQuote(s, q, minLen) : q \in {SkipSpace(s, eq + 1)}})
    ELSE NoMatch

\* \s*=\s*["\'](value)["\'] from index e.
AssignedValue(s, e, minLen) ==
    The({EqualsSign(s, eq, minLen) : eq \in {SkipSpace(s, e)}})

\* A match of  name\s*=\s*["\'](value)["\']  at index j (IGNORECASE).
AttrValueAt(s, j, name, minLen) ==
    IF MatchesAtI(s, j, name) THEN AssignedValue(s, j + Len(name), minLen)
    ELSE NoMatch

(***************************************************************************)
(* _parse_outer_html                                                       *)
(***************************************************************************)

\* dict[key] = value.
SetKey(d, key, value) ==
    [k \in DOMAIN d \cup {key} |-> IF k = key THEN value ELSE d[k]]

RECURSIVE AttrNameEnd(_, _)
\* (?:-\w+)* at index e.
AttrNameMore(s, e) ==
    IF e + 1 <= Len(s) /\ s[e] = "-" /\ IsWord(s[e + 1])
    THEN AttrNameEnd(s, e + 1)
    ELSE e

\* (\w+(?:-\w+)*) from index i, where s[i] is a word character: the index
\* after the attribute name.
AttrNameEnd(s, i) == The({AttrNameMore(s, e) : e \in {SkipWord(s, i)}})

\* The match whose name is s[p .. e-1] and whose value match is m.
NamedAttr(s, p, e, m) ==
    IF m.ok THEN [ok |-> TRUE, key |-> Slice(s, p, e - 1), value |-> m.value,
                  end |-> m.end]
    ELSE NoMatch

\* The name ends before index e; then \s*=\s*["\']([^"\']*)["\'].
AttrAfterName(s, p, e) ==
    The({NamedAttr(s, p, e, m) : m \in {AssignedValue(s, e, 0)}})

\* A match of (\w+(?:-\w+)*)\s*=\s*["\']([^"\']*)["\'] starting at index p.
AttrMatchAt(s, p) ==
    IF p <= Len(s) /\ IsWord(s[p])
    THEN The({AttrAfterName(s, p, e) : e \in {AttrNameEnd(s, p)}})
    ELSE NoMatch

RECURSIVE ParseAttrs(_, _, _)
\* if value.strip(): attrs[key] = value -- for the match m at index p.
ParseAttrsAt(s, p, attrs, m) ==
    IF ~m.ok THEN ParseAttrs(s, p + 1, attrs)
    ELSE IF Strip(m.value) # <<>>
    THEN The({ParseAttrs(s, m.end, d) :
                d \in {SetKey(attrs, LowerStr(m.key), m.value)}})
    ELSE ParseAttrs(s, m.end, attrs)

\* for attr_match in re.finditer(attr_pattern, attrs_str), from index p.
ParseAttrs(s, p, attrs) ==
    IF p > Len(s) THEN attrs
    ELSE The({ParseAttrsAt(s, p, attrs, m) : m \in {AttrMatchAt(s, p)}})

RECURSIVE FirstTag(_, _)
\* re.search(r'<(\w+)([^>]*)>', s) from index i: the index of the "<" of
\* the leftmost match, else 0.
FirstTag(s, i) ==
    IF i > Len(s) THEN 0
    ELSE IF /\ s[i] = "<"
            /\ i + 1 <= Len(s) /\ IsWord(s[i + 1])
            /\ FindChar(s, i + 2, {">"}) > 0
    THEN i
    ELSE FirstTag(s, i + 1)

NoElement == [tag |-> None, attrs |-> <<>>]

\* match.group(1).lower() is s[i+1 .. e-1]; match.group(2) runs from e to
\* the first ">".
ParsedTag(s, i, e) ==
    [tag   |-> LowerStr(Slice(s, i + 1, e - 1)),
     attrs |-> The({ParseAttrs(attrs_str, 1, <<>>) :
                       attrs_str \in {Slice(s, e, FindChar(s, e, {">"}) - 1)}})]

\* if not match: return None, {} -- i is the index FirstTag found.
ParsedAt(s, i) ==
    IF i = 0 THEN NoElement ELSE The({ParsedTag(s, i, e) : e \in {SkipWord(s, i + 1)}})

\* The parse of snippet.strip().
ParseStripped(s) ==
    IF s = <<>> THEN NoElement ELSE The({ParsedAt(s, i) : i \in {FirstTag(s, 1)}})

_parse_outer_html(snippet) ==
    IF ~Truthy(snippet) THEN NoElement
    ELSE The({ParseStripped(s) : s \in {Strip(snippet)}})

(***************************************************************************)
(* Attribute and anchor lookups                                            *)
(***************************************************************************)

S_data_testid == <<"d","a","t","a","-","t","e","s","t","i","d">>
S_data_test == <<"d","a","t","a","-","t","e","s","t">>
S_data_qa == <<"d","a","t","a","-","q","a">>
S_data_automation_id ==
    <<"d","a","t","a","-","a","u","t","o","m","a","t","i","o","n","-","i","d">>
S_aria_label == <<"a","r","i","a","-","l","a","b","e","l">>
S_name == <<"n","a","m","e">>
S_role == <<"r","o","l","e">>
S_value == <<"v","a","l","u","e">>
S_title == <<"t","i","t","l","e">>
S_alt == <<"a","l","t">>
S_id == <<"i","d">>

priority_order ==
    <<S_data_testid, S_data_test, S_data_qa, S_data_automation_id,
      S_aria_label, S_name, S_role, S_value, S_title, S_alt, S_id>>

\* The test without its "and attrs[attr].strip()".
HasAttr(attrs, attr) == attr \in DOMAIN attrs

\* if attr in attrs and attrs[attr].strip()
HasNonBlank(attrs, attr) == attr \in DOMAIN attrs /\ Strip(attrs[attr]) # <<>>

RECURSIVE BestAttrFrom(_, _, _)
\* for attr in priority_order, from the k-th.
BestAttrFrom(attrs, order, k) ==
    IF k > Len(order) THEN None
    ELSE IF HasNonBlank(attrs, order[k]) THEN <<order[k], attrs[order[k]]>>
    ELSE BestAttrFrom(attrs, order, k + 1)

\* The result is None or the pair <<attr, value>>.
_best_attr(attrs) == BestAttrFrom(attrs, priority_order, 1)

controls ==
    <<<<"i","n","p","u","t">>, <<"b","u","t","t","o","n">>, <<"a">>,
      <<"s","e","l","e","c","t">>, <<"t","e","x","t","a","r","e","a">>,
      <<"l","a","b","e","l">>>>

\* [^>]*> after the value match m: the whole match ends after the first ">".
ClosedTag(m, gt) ==
    IF gt > 0 THEN [ok |-> TRUE, value |-> m.value, end |-> gt + 1] ELSE NoMatch

\* The value match m, then [^>]*>.
ThenCloseTag(s, m) ==
    IF m.ok THEN The({ClosedTag(m, gt) : gt \in {FindChar(s, m.end, {">"})}})
    ELSE NoMatch

\* name\s*=\s*["\'](value)["\'][^>]*>  at index j.
TagAttrAt(s, j, name, minLen) ==
    The({ThenCloseTag(s, m) : m \in {AttrValueAt(s, j, name, minLen)}})

RECURSIVE LastTagAttr(_, _, _, _, _)
\* The greedy [^>]* of  open[^>]*name...  gives characters back from index j
\* down to index b: the last place from which the rest matches.
LastTagAttrAt(s, j, b, name, minLen, m) ==
    IF m.ok THEN m ELSE LastTagAttr(s, j - 1, b, name, minLen)

LastTagAttr(s, j, b, name, minLen) ==
    IF j < b THEN NoMatch
    ELSE The({LastTagAttrAt(s, j, b, name, minLen, m) :
                m \in {TagAttrAt(s, j, name, minLen)}})

\* [^>]* from index b runs to the first ">" at index gt, or to the end.
TagRegionEnd(s, gt) == IF gt = 0 THEN Len(s) + 1 ELSE gt

\* A match of  open[^>]*name\s*=\s*["\'](value)["\'][^>]*>  starting at
\* index i (IGNORECASE).
TagAttrMatchAt(s, i, open, name, minLen) ==
    IF MatchesAtI(s, i, open)
    THEN The({LastTagAttr(s, TagRegionEnd(s, gt), i + Len(open), name, minLen) :
                gt \in {FindChar(s, i + Len(open), {">"})}})
    ELSE NoMatch

RECURSIVE TagAttrSearch(_, _, _, _, _)
\* The match m at index i, else the search goes on.
TagAttrSearchAt(s, i, open, name, minLen, m) ==
    IF m.ok THEN m ELSE TagAttrSearch(s, i + 1, open, name, minLen)

\* re.search of that pattern from index i: the leftmost match.
TagAttrSearch(s, i, open, name, minLen) ==
    IF i > Len(s) THEN NoMatch
    ELSE The({TagAttrSearchAt(s, i, open, name, minLen, m) :
                m \in {TagAttrMatchAt(s, i, open, name, minLen)}})

\* re.search(rf'<{control}[^>]*aria-label\s*=\s*["\']([^"\']*?)["\'][^>]*>',
\*           snippet, re.IGNORECASE)
ControlAriaSearch(snippet, control) ==
    TagAttrSearch(snippet, 1, <<"<">> \o control, S_aria_label, 0)

RECURSIVE FindControlFrom(_, _, _)
\* if match and _norm(match.group(1)) == _norm(target_text): return control
FindControlAt(snippet, target_text, k, m) ==
    IF m.ok /\ _norm(m.value) = _norm(target_text) THEN controls[k]
    ELSE FindControlFrom(snippet, target_text, k + 1)

\* for control in controls, from the k-th.
FindControlFrom(snippet, target_text, k) ==
    IF k > Len(controls) THEN None
    ELSE The({FindControlAt(snippet, target_text, k, m) :
                m \in {ControlAriaSearch(snippet, controls[k])}})

\* The result is None or the control's tag name.
_find_control_with_aria_label(snippet, target_text) ==
    IF ~Truthy(target_text) \/ ~Truthy(snippet) THEN None
    ELSE FindControlFrom(snippet, target_text, 1)

test_attrs == <<S_id, S_data_testid, S_data_automation_id, S_data_qa, S_data_test>>

\* value = match.group(1).strip(); if value: anchors.append((attr, value))
AnchorOf(attr, value) == IF value # <<>> THEN <<<<attr, value>>>> ELSE <<>>

RECURSIVE FindIterAnchors(_, _, _)
\* The match m at index i, else the scan goes on.
FindIterAnchorsAt(s, i, attr, m) ==
    IF ~m.ok THEN FindIterAnchors(s, i + 1, attr)
    ELSE The({AnchorOf(attr, value) : value \in {Strip(m.value)}})
            \o FindIterAnchors(s, m.end, attr)

\* re.finditer(rf'<[^>]*{attr}\s*=\s*["\']([^"\']+)["\'][^>]*>', snippet,
\* re.IGNORECASE) from index i.
FindIterAnchors(s, i, attr) ==
    IF i > Len(s) THEN <<>>
    ELSE The({FindIterAnchorsAt(s, i, attr, m) :
                m \in {TagAttrMatchAt(s, i, <<"<">>, attr, 1)}})

RECURSIVE AnchorsOfAttrs(_, _)
\* for attr in test_attrs, from the k-th.
AnchorsOfAttrs(s, k) ==
    IF k > Len(test_attrs) THEN <<>>
    ELSE FindIterAnchors(s, 1, test_attrs[k]) \o AnchorsOfAttrs(s, k + 1)

_find_descendant_ids_or_testids(snippet) == AnchorsOfAttrs(snippet, 1)

anchor_attrs == <<S_aria_label, S_value, S_title, S_name, S_alt>>

RECURSIVE AnchorAttrAlt(_, _, _)
\* The k-th alternative matched as m, else the next alternative.
AnchorAttrAltAt(s, p, k, m) == IF m.ok THEN m ELSE AnchorAttrAlt(s, p, k + 1)

\* A match of (?:aria-label|value|title|name|alt)\s*=\s*["\']([^"\']*?)["\']
\* at index p (IGNORECASE), from the k-th alternative.
AnchorAttrAlt(s, p, k) ==
    IF k > Len(anchor_attrs) THEN NoMatch
    ELSE The({AnchorAttrAltAt(s, p, k, m) :
                m \in {AttrValueAt(s, p, anchor_attrs[k], 0)}})

RECURSIVE FirstAttrAnchor(_, _)
\* text = _norm(match.group(1)); if text: return text
FirstAttrAnchorText(s, m, text) ==
    IF text # <<>> THEN text ELSE FirstAttrAnchor(s, m.end)

\* The match m at index p, else the scan goes on.
FirstAttrAnchorAt(s, p, m) ==
    IF ~m.ok THEN FirstAttrAnchor(s, p + 1)
    ELSE The({FirstAttrAnchorText(s, m, text) : text \in {_norm(m.value)}})

\* for match in re.finditer(attr_pattern, snippet, re.IGNORECASE), from
\* index p: the first non-empty normalized value, else None.
FirstAttrAnchor(s, p) ==
    IF p > Len(s) THEN None
    ELSE The({FirstAttrAnchorAt(s, p, m) : m \in {AnchorAttrAlt(s, p, 1)}})

text_tags ==
    <<<<"s","p","a","n">>, <<"p">>, <<"l","a","b","e","l">>, <<"a">>,
      <<"b","u","t","t","o","n">>, <<"d","i","v">>>>

\* ([^<]+)</{tag}> after the ">" at index gt, where lt is the next "<".
TextUpTo(s, gt, lt, tag) ==
    IF lt > gt + 1 /\ MatchesAtI(s, lt, <<"<", "/">> \o tag \o <<">">>)
    THEN [ok |-> TRUE, value |-> Slice(s, gt + 1, lt - 1)]
    ELSE NoMatch

\* [^>]*> ends at the first ">" at index gt.
TextAfterOpen(s, gt, tag) ==
    IF gt > 0 THEN The({TextUpTo(s, gt, lt, tag) : lt \in {FindChar(s, gt + 1, {"<"})}})
    ELSE NoMatch

\* A match of <{tag}[^>]*>([^<]+)</{tag}> starting at index i (IGNORECASE,
\* DOTALL).
TextMatchAt(s, i, tag) ==
    IF MatchesAtI(s, i, <<"<">> \o tag)
    THEN The({TextAfterOpen(s, gt, tag) : gt \in {FindChar(s, i + 1 + Len(tag), {">"})}})
    ELSE NoMatch

RECURSIVE TextSearch(_, _, _)
\* The match m at index i, else the search goes on.
TextSearchAt(s, i, tag, m) == IF m.ok THEN m ELSE TextSearch(s, i + 1, tag)

\* re.search of that pattern from index i: the leftmost match.
TextSearch(s, i, tag) ==
    IF i > Len(s) THEN NoMatch
    ELSE The({TextSearchAt(s, i, tag, m) : m \in {TextMatchAt(s, i, tag)}})

MaxAutoTextLen == 50

RECURSIVE AutoFromText(_, _)
\* text = _norm(match.group(1)); if text and len(text) <= 50: return text
AutoTextOr(snippet, k, text) ==
    IF text # <<>> /\ Len(text) <= MaxAutoTextLen THEN text
    ELSE AutoFromText(snippet, k + 1)

\* if match: ... -- for the k-th text tag.
AutoFromTextAt(snippet, k, m) ==
    IF m.ok THEN The({AutoTextOr(snippet, k, text) : text \in {_norm(m.value)}})
    ELSE AutoFromText(snippet, k + 1)

\* for tag in text_tags, from the k-th; then return None.
AutoFromText(snippet, k) ==
    IF k > Len(text_tags) THEN None
    ELSE The({AutoFromTextAt(snippet, k, m) :
                m \in {TextSearch(snippet, 1, text_tags[k])}})

\* The attribute loop, where text is its result: then the text tags.
AutoFromAttrsOr(snippet, text) ==
    IF text # None THEN text ELSE AutoFromText(snippet, 1)

RECURSIVE AutoFromControls(_, _)
\* text = _norm(match.group(1)); if text: return text
AutoControlOr(snippet, k, text) ==
    IF text # <<>> THEN text ELSE AutoFromControls(snippet, k + 1)

\* if match: ... -- for the k-th control.
AutoFromControlsAt(snippet, k, m) ==
    IF m.ok THEN The({AutoControlOr(snippet, k, text) : text \in {_norm(m.value)}})
    ELSE AutoFromControls(snippet, k + 1)

\* for control in controls, from the k-th; then the attribute loop.
AutoFromControls(snippet, k) ==
    IF k > Len(controls)
    THEN The({AutoFromAttrsOr(snippet, text) : text \in {FirstAttrAnchor(snippet, 1)}})
    ELSE The({AutoFromControlsAt(snippet, k, m) :
                m \in {ControlAriaSearch(snippet, controls[k])}})

_auto_anchor_from_node(snippet) ==
    IF ~Truthy(snippet) THEN None ELSE AutoFromControls(snippet, 1)

(***************************************************************************)
(* Expression building                                                     *)
(***************************************************************************)

\* f"//{tag}[@{attr_name}={_xp_literal(attr_value)}]" if best_attr else f"//{tag}"
TagWithAttr(tag, best_attr) ==
    IF best_attr # None
    THEN <<"/", "/">> \o tag \o <<"[", "@">> \o best_attr[1] \o <<"=">>
            \o _xp_literal(best_attr[2]) \o <<"]">>
    ELSE <<"/", "/">> \o tag

_ancestor_scope(tag, attrs) ==
    The({TagWithAttr(tag, best_attr) : best_attr \in {_best_attr(attrs)}})

_combine(scope, base) ==
    scope \o <<"/", "/">> \o
        (IF Len(base) >= 2 /\ base[1] = "/" /\ base[2] = "/"
         THEN Slice(base, 3, Len(base))
         ELSE base)

\* f".//*[@{attr}={literal}]"
AttrPredicate(attr, literal) ==
    <<".","/","/","*","[","@">> \o attr \o <<"=">> \o literal \o <<"]">>

RECURSIVE Join(_, _, _)
\* sep.join(parts), from the k-th part.
Join(sep, parts, k) ==
    IF k > Len(parts) THEN <<>>
    ELSE IF k = Len(parts) THEN parts[k]
    ELSE parts[k] \o sep \o Join(sep, parts, k + 1)

\* The predicates of the attributes and of the text content.
AttrOrTextPredicates(literal) ==
    [k \in 1..Len(anchor_attrs) |-> AttrPredicate(anchor_attrs[k], literal)]
    \o << <<".","/","/","*","[","n","o","r","m","a","l","i","z","e",
            "-","s","p","a","c","e","(",".",")","=">>
          \o literal \o <<"]">> >>

\* Those predicates joined by or.
AnyAttrOrText(literal) ==
    The({Join(<<" ","o","r"," ">>, parts, 1) : parts \in {AttrOrTextPredicates(literal)}})

\* if control: the control-specific predicate -- else: the other attributes.
PredicateFor(control, literal) ==
    IF control # None
    THEN <<".","/","/">> \o control \o <<"[","@">> \o S_aria_label \o <<"=">>
            \o literal \o <<"]">>
    ELSE AnyAttrOrText(literal)

\* The predicate built before the internal anchors are added.
AnchorPredicate(snippet, anchor_text) ==
    The({PredicateFor(control, literal) :
            control \in {_find_control_with_aria_label(snippet, anchor_text)},
            literal \in {_xp_literal(anchor_text)}})

MaxInternalAnchors == 2

\* internal_anchors[:2]
FirstAnchors(internal_anchors) ==
    Slice(internal_anchors, 1,
          IF Len(internal_anchors) < MaxInternalAnchors
          THEN Len(internal_anchors) ELSE MaxInternalAnchors)

\* anchor_predicates of the anchors used.
AnchorPredicates(used) ==
    [k \in 1..Len(used) |-> AttrPredicate(used[k][1], _xp_literal(used[k][2]))]

\* anchor_predicates of the first internal anchors of the snippet.
InternalPredicates(snippet) ==
    The({The({AnchorPredicates(used) : used \in {FirstAnchors(internal_anchors)}}) :
            internal_anchors \in {_find_descendant_ids_or_testids(snippet)}})

\* if anchor_predicates: predicate = f"({predicate}) and {' and '.join(...)}"
WithAnchors(predicate, anchor_predicates) ==
    IF Len(anchor_predicates) > 0
    THEN <<"(">> \o predicate \o <<")"," ","a","n","d"," ">>
            \o Join(<<" ","a","n","d"," ">>, anchor_predicates, 1)
    ELSE predicate

\* _build_root_with_anchor without its "if not root_tag" guard.
_build_root_with_anchor_unguarded(snippet, anchor_text, root_tag) ==
    <<"/", "/">> \o root_tag \o <<"[">>
        \o The({WithAnchors(predicate, anchor_predicates) :
                    predicate \in {AnchorPredicate(snippet, anchor_text)},
                    anchor_predicates \in {InternalPredicates(snippet)}})
        \o <<"]">>

_build_root_with_anchor(snippet, anchor_text, root_tag) ==
    IF ~Truthy(root_tag) THEN <<>>
    ELSE <<"/", "/">> \o root_tag \o <<"[">>
            \o The({WithAnchors(predicate, anchor_predicates) :
                        predicate \in {AnchorPredicate(snippet, anchor_text)},
                        anchor_predicates \in {InternalPredicates(snippet)}})
            \o <<"]">>

_build_root_without_anchor(tag, attrs) ==
    IF ~Truthy(tag) THEN <<>>
    ELSE The({TagWithAttr(tag, best_attr) : best_attr \in {_best_attr(attrs)}})

(***************************************************************************)
(* The counting capability and _count                                      *)
(***************************************************************************)

MaxCount == 3

\* What page.locator(f"xpath={xpath}").count() does: it returns a count or
\* it raises.
Responses ==
    {[raises |-> FALSE, n |-> k] : k \in 0..MaxCount} \cup {[raises |-> TRUE, n |-> 0]}

\* _count without its try/except: the driver's exception leaves it.
_count_propagates(resp) ==
    IF resp.raises THEN [raised |-> TRUE, value |-> 0]
    ELSE [raised |-> FALSE, value |-> resp.n]

\* try: return await page.locator(...).count() / except Exception: return 0
_count(resp) ==
    IF resp.raises THEN [raised |-> FALSE, value |-> 0]
    ELSE [raised |-> FALSE, value |-> resp.n]

(***************************************************************************)
(* The fragments and target texts one invocation is given                  *)
(***************************************************************************)

NodeFragments ==
    { None,
      <<>>,
      <<" ">>,
      <<"a","l","t","=","'","x","'">>,
      <<"<","l","i",">">>,
      <<"<","L","I"," ","i","d","=","'","a","'",">">>,
      <<"<","a"," ","a","r","i","a","-","l","a","b","e","l","=","'","G","o","'",">">>,
      <<"<","p",">","a","&","n","b","s","p",";","b","<","/","p",">">> }

ParentFragments ==
    { None,
      <<"x">>,
      <<"<","u","l"," ","i","d","=","'","u","'"," ","n","a","m","e","=","'","n","'",">">> }

GrandFragments ==
    { None,
      <<"<","d","i","v"," ","r","o","l","e","=","'","r","'",">">> }

TargetTexts ==
    { None,
      <<" ">>,
      <<"G","o">>,
      <<"a"," "," ","b">>,
      <<"&","n","b","s","p",";">> }

(***************************************************************************)
(* choose_best_xpath                                                       *)
(***************************************************************************)

VARIABLES
    node_html, parent_html, grand_html, target_text, validate,  \* arguments
    pc,              \* "start", "root", "parent", "grand", "fallback",
                     \* "done" (returned) or "raised" (an exception left)
    node_tag, node_attrs, parent_tag, parent_attrs, grand_tag, grand_attrs,
    anchor_text, root_xpath, diagnostics,
    result,          \* the returned expression, once pc = "done"
    auto_consulted,  \* history: _auto_anchor_from_node was called
    calls,           \* history: the calls of the counting capability, in order
    attrs,           \* the attribute map the lookups below are given
    best_attr,       \* what _best_attr(attrs) returned
    scope_xpath,     \* what _ancestor_scope(tag, attrs) returned
    bare_xpath       \* what _build_root_without_anchor(tag, attrs) returned

args == <<node_html, parent_html, grand_html, target_text, validate>>

parsed == <<node_tag, node_attrs, parent_tag, parent_attrs, grand_tag, grand_attrs,
            anchor_text, auto_consulted>>

lookup == <<attrs, best_attr, scope_xpath, bare_xpath>>

vars == <<args, parsed, pc, root_xpath, diagnostics, result, calls, lookup>>

\* A result that no call has produced yet.
Unset == <<"<unset>">>

Init ==
    /\ node_html \in NodeFragments
    /\ parent_html \in ParentFragments
    /\ grand_html \in GrandFragments
    /\ target_text \in TargetTexts
    /\ validate \in BOOLEAN
    /\ pc = "start"
    /\ node_tag = None /\ node_attrs = <<>>
    /\ parent_tag = None /\ parent_attrs = <<>>
    /\ grand_tag = None /\ grand_attrs = <<>>
    /\ anchor_text = None
    /\ root_xpath = <<>>
    /\ diagnostics = <<>>
    /\ result = None
    /\ auto_consulted = FALSE
    /\ calls = <<>>
    /\ attrs = <<>>
    /\ best_attr = Unset /\ scope_xpath = Unset /\ bare_xpath = Unset

\* target_text if target_text and target_text.strip() else _auto_anchor_from_node(node_html)
UsesTargetText(text) == Truthy(text) /\ Strip(text) # <<>>

\* _parse_outer_html(html) if html else (None, {})
ParseOptional(html) == IF Truthy(html) THEN _parse_outer_html(html) ELSE NoElement

\* Lines 49-50: the anchor text.
ResolveAnchor(text, snippet) ==
    IF UsesTargetText(text) THEN text ELSE _auto_anchor_from_node(snippet)

\* Lines 52-56: the ROOT expression.
RootOf(snippet, anchor, node) ==
    IF Truthy(anchor) THEN _build_root_with_anchor(snippet, anchor, node.tag)
    ELSE _build_root_without_anchor(node.tag, node.attrs)

\* Lines 42-59: parse the fragments, determine the anchor, build the ROOT
\* expression; return (None, diagnostics) when there is none.
Build ==
    /\ pc = "start"
    /\ \E node \in {_parse_outer_html(node_html)} :
       \E parent \in {ParseOptional(parent_html)} :
       \E grand \in {ParseOptional(grand_html)} :
       \E anchor \in {ResolveAnchor(target_text, node_html)} :
       \E root \in {RootOf(node_html, anchor, node)} :
           /\ node_tag' = node.tag /\ node_attrs' = node.attrs
           /\ parent_tag' = parent.tag /\ parent_attrs' = parent.attrs
           /\ grand_tag' = grand.tag /\ grand_attrs' = grand.attrs
           /\ anchor_text' = anchor
           /\ auto_consulted' = ~UsesTargetText(target_text)
           /\ root_xpath' = root
           /\ IF ~Truthy(root)
              THEN pc' = "done" /\ result' = None
              ELSE pc' = "root" /\ UNCHANGED result
    /\ UNCHANGED <<args, diagnostics, calls, lookup>>

\* The validation step without its "if count == 1: return".
ValidatedNoStop(xpath, level, next) ==
    \E resp \in Responses :
    \E count \in {_count(resp)} :
        /\ calls' = Append(calls, [xpath |-> xpath, resp |-> resp, level |-> level])
        /\ diagnostics' = Append(diagnostics, <<xpath, count.value>>)
        /\ pc' = next
        /\ UNCHANGED result

\* The validation step with diagnostics.insert(0, ...) for diagnostics.append(...).
ValidatedPrepend(xpath, level, next) ==
    \E resp \in Responses :
    \E count \in {_count(resp)} :
        /\ calls' = Append(calls, [xpath |-> xpath, resp |-> resp, level |-> level])
        /\ diagnostics' = <<<<xpath, count.value>>>> \o diagnostics
        /\ IF count.value = 1
           THEN pc' = "done" /\ result' = xpath
           ELSE pc' = next /\ UNCHANGED result

\* count = await _count(page, xpath); diagnostics.append((xpath, count));
\* if count == 1: return xpath, diagnostics -- else go on at next.
Validated(xpath, level, next) ==
    \E resp \in Responses :
    \E count \in {_count(resp)} :
        /\ calls' = Append(calls, [xpath |-> xpath, resp |-> resp, level |-> level])
        /\ IF count.raised
           THEN pc' = "raised" /\ UNCHANGED <<diagnostics, result>>
           ELSE /\ diagnostics' = Append(diagnostics, <<xpath, count.value>>)
                /\ IF count.value = 1
                   THEN pc' = "done" /\ result' = xpath
                   ELSE pc' = next /\ UNCHANGED result

\* The ROOT validation without its "if validate".
ValidateRootAlways ==
    /\ pc = "root"
    /\ Validated(root_xpath, 1, "parent")
    /\ UNCHANGED <<args, parsed, root_xpath, lookup>>

\* Lines 61-66: validate the ROOT expression.
ValidateRoot ==
    /\ pc = "root"
    /\ IF validate
       THEN Validated(root_xpath, 1, "parent")
       ELSE pc' = "parent" /\ UNCHANGED <<diagnostics, result, calls>>
    /\ UNCHANGED <<args, parsed, root_xpath, lookup>>

\* Lines 68-79: the parent scope.
ParentScope ==
    /\ pc = "parent"
    /\ IF Truthy(parent_tag)
       THEN \E parent_scope \in {_ancestor_scope(parent_tag, parent_attrs)} :
            \E parent_xpath \in {_combine(parent_scope, root_xpath)} :
                IF validate
                THEN Validated(parent_xpath, 2, "grand") /\ UNCHANGED root_xpath
                ELSE /\ root_xpath' = parent_xpath
                     /\ pc' = "grand"
                     /\ UNCHANGED <<diagnostics, result, calls>>
       ELSE pc' = "grand" /\ UNCHANGED <<root_xpath, diagnostics, result, calls>>
    /\ UNCHANGED <<args, parsed, lookup>>

\* Lines 81-90: the grandparent scope.
GrandScope ==
    /\ pc = "grand"
    /\ IF Truthy(grand_tag)
       THEN \E grand_scope \in {_ancestor_scope(grand_tag, grand_attrs)} :
            \E grand_xpath \in {_combine(grand_scope, root_xpath)} :
                IF validate
                THEN Validated(grand_xpath, 3, "fallback")
                ELSE pc' = "fallback" /\ UNCHANGED <<diagnostics, result, calls>>
       ELSE pc' = "fallback" /\ UNCHANGED <<diagnostics, result, calls>>
    /\ UNCHANGED <<args, parsed, root_xpath, lookup>>

\* positive_candidates with cnt >= 0 for cnt > 0.
positive_candidates_ge0(diags) == SelectSeq(diags, LAMBDA d : d[2] >= 0)

\* [(xp, cnt) for xp, cnt in diagnostics if cnt > 0]
positive_candidates(diags) == SelectSeq(diags, LAMBDA d : d[2] > 0)

\* A minimum search that keeps the last entry of the smallest count.
MinByCountLast(cands) ==
    cands[CHOOSE i \in 1..Len(cands) :
            \A j \in 1..Len(cands) :
                \/ cands[i][2] < cands[j][2]
                \/ cands[i][2] = cands[j][2] /\ i >= j]

\* min(positive_candidates, key=lambda x: x[1]): the first entry of the
\* smallest count.
MinByCount(cands) ==
    cands[CHOOSE i \in 1..Len(cands) :
            \A j \in 1..Len(cands) :
                \/ cands[i][2] < cands[j][2]
                \/ cands[i][2] = cands[j][2] /\ i <= j]

\* best_xpath, _ = min(positive_candidates, ...) if positive_candidates, else None.
BestOf(cands) == IF cands # <<>> THEN MinByCount(cands)[1] ELSE None

\* Lines 92-99: the best candidate, or None.
Fallback ==
    /\ pc = "fallback"
    /\ IF validate /\ diagnostics # <<>>
       THEN \E candidates \in {positive_candidates(diagnostics)} :
                result' = BestOf(candidates)
       ELSE result' = None
    /\ pc' = "done"
    /\ UNCHANGED <<args, parsed, root_xpath, diagnostics, calls, lookup>>

Next == Build \/ ValidateRoot \/ ParentScope \/ GrandScope \/ Fallback

Spec == Init /\ [][Next]_vars

\* Each step of the invocation is taken once it can be: the coroutine runs on.
FairSpec == Spec /\ WF_vars(Next)

(***************************************************************************)
(* The attribute lookup on its own: _best_attr and its two callers, each   *)
(* given one attribute map                                                 *)
(***************************************************************************)

S_class == <<"c","l","a","s","s">>

\* The attribute names a map may hold: the listed ones and one that is not.
AttrNames == {priority_order[k] : k \in 1..Len(priority_order)} \cup {S_class}

\* The values a map may hold: empty, blank, and one that is not blank.
AttrValues == {<<>>, <<" ">>, <<" ","w">>}

MaxAttrs == 3

\* The attribute maps: a Dict[str, str] of at most MaxAttrs attributes.
AttrMaps ==
    UNION {[names -> AttrValues] :
              names \in {K \in SUBSET AttrNames : Cardinality(K) <= MaxAttrs}}

\* The tag the two callers are given.
LookupTag == <<"l","i">>

LookupInit ==
    /\ attrs \in AttrMaps
    /\ pc = "lookup"
    /\ best_attr = Unset /\ scope_xpath = Unset /\ bare_xpath = Unset
    /\ node_html = None /\ parent_html = None /\ grand_html = None
    /\ target_text = None /\ validate = FALSE
    /\ node_tag = None /\ node_attrs = <<>>
    /\ parent_tag = None /\ parent_attrs = <<>>
    /\ grand_tag = None /\ grand_attrs = <<>>
    /\ anchor_text = None
    /\ root_xpath = <<>>
    /\ diagnostics = <<>>
    /\ result = None
    /\ auto_consulted = FALSE
    /\ calls = <<>>

\* The frame of a lookup step: the invocation's own state.
invocation == <<args, parsed, pc, root_xpath, diagnostics, result, calls>>

\* best_attr = _best_attr(attrs)
BestAttr ==
    /\ pc = "lookup" /\ best_attr = Unset
    /\ best_attr' = _best_attr(attrs)
    /\ UNCHANGED <<invocation, attrs, scope_xpath, bare_xpath>>

\* _ancestor_scope(tag, attrs)
AncestorScope ==
    /\ pc = "lookup" /\ scope_xpath = Unset
    /\ scope_xpath' = _ancestor_scope(LookupTag, attrs)
    /\ UNCHANGED <<invocation, attrs, best_attr, bare_xpath>>

\* _build_root_without_anchor(tag, attrs)
RootWithoutAnchor ==
    /\ pc = "lookup" /\ bare_xpath = Unset
    /\ bare_xpath' = _build_root_without_anchor(LookupTag, attrs)
    /\ UNCHANGED <<invocation, attrs, best_attr, scope_xpath>>

LookupNext == BestAttr \/ AncestorScope \/ RootWithoutAnchor

LookupSpec == LookupInit /\ [][LookupNext]_vars

(***************************************************************************)
(* Properties                                                              *)
(***************************************************************************)

Count(i) == diagnostics[i][2]

Expr(i) == diagnostics[i][1]

\* C1: with validate enabled, a diagnostics entry of count exactly 1 is the
\* last entry, the invocation has returned that entry's expression, and the
\* call that counted it is the last call of the counting capability.
C1_UniqueStops ==
    validate =>
        \A i \in 1..Len(diagnostics) :
            Count(i) = 1 =>
                /\ i = Len(diagnostics)
                /\ pc = "done"
                /\ result = Expr(i)
                /\ Len(calls) = i

C1_Witness ==
    /\ pc = "done" /\ validate
    /\ Len(diagnostics) = 2 /\ Count(1) = 2 /\ Count(2) = 1
    /\ result = Expr(2) /\ Len(calls) = 2

\* The deepest expression the validation-disabled mode composes: root_xpath
\* holds the parent-scoped base by then.
DeepestComposed ==
    IF Truthy(grand_tag)
    THEN _combine(_ancestor_scope(grand_tag, grand_attrs), root_xpath)
    ELSE root_xpath

\* C2: with validate disabled and a resolvable node tag, the returned
\* expression is present: the node-only expression when no ancestor fragment
\* is given, else the deepest composed ancestor-scoped expression.
C2_NoValidateReturnsExpression ==
    (pc = "done" /\ ~validate /\ Truthy(node_tag)) =>
        /\ result # None
        /\ result = DeepestComposed

\* C3: with validate enabled and no entry of count 1, the returned expression
\* is that of the entry with the smallest count greater than zero, the
\* earliest of them when several share it.
C3_SmallestPositiveFirst ==
    (pc = "done" /\ validate /\ \A i \in 1..Len(diagnostics) : Count(i) # 1) =>
        \A i \in 1..Len(diagnostics) :
            (/\ Count(i) > 0
             /\ \A j \in 1..Len(diagnostics) :
                    Count(j) > 0 => \/ Count(i) < Count(j)
                                    \/ Count(i) = Count(j) /\ i <= j)
                => result = Expr(i)

C3_Witness ==
    /\ pc = "done" /\ validate
    /\ Len(diagnostics) = 3
    /\ Count(1) = 3 /\ Count(2) = 2 /\ Count(3) = 2
    /\ result = Expr(2) /\ result # Expr(3)

\* C4: with validate enabled, a third diagnostics entry is the grandparent
\* scope combined with the parent-scoped expression of the second entry.
C4_GrandOverParent ==
    (validate /\ Len(diagnostics) = 3) =>
        Expr(3) = _combine(_ancestor_scope(grand_tag, grand_attrs), Expr(2))

\* The step just taken called the counting capability.
Counted == Len(calls') = Len(calls) + 1

\* C5: a call of the counting capability that raises is recorded as count 0
\* for its candidate, nothing is raised out of the invocation, and the
\* invocation goes on at the next escalation level as after a count of 0.
C5_FailureIsZero ==
    [][ (Counted /\ calls'[Len(calls')].resp.raises) =>
            /\ pc' # "raised"
            /\ diagnostics' = Append(diagnostics, <<calls'[Len(calls')].xpath, 0>>)
            /\ pc' = (CASE pc = "root" -> "parent"
                        [] pc = "parent" -> "grand"
                        [] OTHER -> "fallback")
            /\ result' = result ]_vars

C5_Witness ==
    /\ pc = "done"
    /\ Len(calls) = 3
    /\ calls[1].resp.raises /\ calls[2].resp.raises /\ ~calls[3].resp.raises
    /\ Count(1) = 0 /\ Count(2) = 0 /\ Count(3) = 2
    /\ result = Expr(3)

\* The candidates an invocation attempts when none counts 1.
Attempted ==
    1 + (IF Truthy(parent_tag) THEN 1 ELSE 0) + (IF Truthy(grand_tag) THEN 1 ELSE 0)

\* C6: with validate enabled and a candidate built, if every diagnostics
\* entry has count 0 the returned expression is absent, and diagnostics is
\* not empty and holds every attempted candidate.
C6_AllZeroAbsent ==
    (/\ pc = "done" /\ validate /\ Truthy(node_tag)
     /\ \A i \in 1..Len(diagnostics) : Count(i) = 0) =>
        /\ result = None
        /\ diagnostics # <<>>
        /\ Len(diagnostics) = Attempted
        /\ Len(calls) = Attempted
        /\ \A i \in 1..Len(diagnostics) : Expr(i) = calls[i].xpath

C6_Witness ==
    /\ pc = "done" /\ validate
    /\ Len(diagnostics) = 3
    /\ Count(1) = 0 /\ Count(2) = 0 /\ Count(3) = 0
    /\ result = None

\* The fragment holds a tag open: "<", a word character, and a later ">".
HasTagOpen(html) ==
    \E i \in 1..Len(html) :
        /\ html[i] = "<"
        /\ i + 1 <= Len(html) /\ IsWord(html[i + 1])
        /\ \E k \in (i + 2)..Len(html) : html[k] = ">"

NodeUnparseable ==
    \/ node_html = None
    \/ \A i \in 1..Len(node_html) : IsSpace(node_html[i])
    \/ ~HasTagOpen(node_html)

\* C7: when the node fragment is absent, blank or without a tag open, the
\* invocation returns (absent, empty diagnostics), raises nothing and never
\* calls the counting capability, whatever the other arguments are.
C7_UnparseableNode ==
    NodeUnparseable =>
        /\ pc \in {"start", "done"}
        /\ pc = "done" => result = None
        /\ diagnostics = <<>>
        /\ calls = <<>>

C7_Witness ==
    /\ pc = "done" /\ validate
    /\ node_html # None /\ Strip(node_html) # <<>> /\ ~HasTagOpen(node_html)
    /\ Truthy(anchor_text) /\ ~auto_consulted
    /\ Truthy(parent_tag) /\ Truthy(grand_tag)
    /\ result = None /\ diagnostics = <<>>

\* The escalation levels: ROOT, PARENT_SCOPE, GRANDPARENT_SCOPE.
Levels == 1..3

C8_Bounded ==
    /\ Len(diagnostics) <= 3
    /\ Len(calls) <= 3
    /\ Len(diagnostics) = Len(calls)
    /\ \A i \in 1..Len(calls) : calls[i].level \in Levels /\ Expr(i) = calls[i].xpath
    /\ \A i, j \in 1..Len(calls) : i < j => calls[i].level < calls[j].level

C8_AppendOnly ==
    \/ diagnostics' = diagnostics
    \/ /\ Len(diagnostics') = Len(diagnostics) + 1
       /\ SubSeq(diagnostics', 1, Len(diagnostics)) = diagnostics

\* C8: diagnostics is append-only, has at most 3 entries, at most one per
\* escalation level and in strictly increasing level order; at most 3
\* counting calls are made, and the invocation terminates.
C8_BoundedEscalation ==
    /\ []C8_Bounded
    /\ [][C8_AppendOnly]_vars
    /\ <>(pc = "done")

C8_Witness ==
    /\ pc = "done"
    /\ Len(diagnostics) = 3
    /\ calls[1].level = 1 /\ calls[2].level = 2 /\ calls[3].level = 3

\* C9: with validate disabled the counting capability is never called and
\* diagnostics stays empty, whatever the fragments and the target text are.
C9_NoValidateNoCount ==
    ~validate => calls = <<>> /\ diagnostics = <<>>

C9_Witness ==
    /\ pc = "done" /\ ~validate
    /\ Truthy(node_tag) /\ Truthy(parent_tag) /\ Truthy(grand_tag)
    /\ Truthy(target_text)
    /\ calls = <<>> /\ diagnostics = <<>>

\* C10: a target text that normalizes to a non-empty string is the anchor in
\* its normalized form, in the node-only expression too, and the node
\* fragment is not searched for an anchor; one that normalizes to empty is
\* no anchor and the node fragment is searched.
C10_TargetTextNormalized ==
    (pc = "root" /\ Truthy(node_tag)) =>
        IF _norm(target_text) # <<>>
        THEN /\ anchor_text = _norm(target_text)
             /\ ~auto_consulted
             /\ root_xpath = _build_root_with_anchor(node_html, _norm(target_text),
                                                     node_tag)
        ELSE /\ auto_consulted
             /\ anchor_text = _auto_anchor_from_node(node_html)

\* The fixed order the lookup is to follow.
ListedOrder ==
    <<S_data_testid, S_data_test, S_data_qa, S_data_automation_id,
      S_aria_label, S_name, S_role, S_value, S_title, S_alt, S_id>>

\* The places in that order whose attribute the map holds with a value that
\* is not blank.
Eligible ==
    {k \in 1..Len(ListedOrder) :
        /\ ListedOrder[k] \in DOMAIN attrs
        /\ \E i \in 1..Len(attrs[ListedOrder[k]]) : ~IsSpace(attrs[ListedOrder[k]][i])}

\* The earliest of those places.
Earliest == CHOOSE k \in Eligible : \A j \in Eligible : k <= j

\* The expression of a tag with the attribute of place k.
ScopedBy(k) ==
    <<"/","/">> \o LookupTag \o <<"[","@">> \o ListedOrder[k] \o <<"=","'">>
        \o attrs[ListedOrder[k]] \o <<"'","]">>

\* C11: the best-attribute lookup returns none exactly when the map holds no
\* listed attribute with a non-blank value; otherwise it returns one
\* attribute with its value, the earliest such attribute in the order
\* data-testid, data-test, data-qa, data-automation-id, aria-label, name,
\* role, value, title, alt, id.  The ancestor scope and the node's no-anchor
\* expression carry that same attribute.
C11_BestAttrOrder ==
    /\ best_attr # Unset =>
            IF Eligible = {} THEN best_attr = None
            ELSE /\ best_attr # None /\ Len(best_attr) = 2
                 /\ best_attr = <<ListedOrder[Earliest], attrs[ListedOrder[Earliest]]>>
    /\ scope_xpath # Unset =>
            scope_xpath = IF Eligible = {} THEN <<"/","/">> \o LookupTag
                          ELSE ScopedBy(Earliest)
    /\ bare_xpath # Unset =>
            bare_xpath = IF Eligible = {} THEN <<"/","/">> \o LookupTag
                         ELSE ScopedBy(Earliest)

C11_Witness ==
    /\ DOMAIN attrs = {S_aria_label, S_name, S_id}
    /\ attrs[S_aria_label] = <<" ">> /\ attrs[S_name] = <<" ","w">>
    /\ attrs[S_id] = <<" ","w">>
    /\ best_attr = <<S_name, <<" ","w">>>>
    /\ scope_xpath # Unset /\ bare_xpath # Unset /\ scope_xpath = bare_xpath

\* The lookup returns none for a map of unlisted or blank attributes only.
C11_WitnessNone ==
    /\ DOMAIN attrs = {S_class, S_id}
    /\ attrs[S_class] = <<" ","w">> /\ attrs[S_id] = <<" ">>
    /\ best_attr = None

====
